---- MODULE Spec2Model ----
(***************************************************************************)
(* Model of internal/app/helm_helpers.go (helmsman): the repository        *)
(* reconciler addHelmRepos, the version gate checkHelmVersion and the      *)
(* plugin probe helmPluginExists, together with the external helm tool     *)
(* they drive through Command.Exec.                                        *)
(*                                                                         *)
(* Strings are sequences of tokens.  A token is a run of characters the    *)
(* code never looks inside ("https", "repo", "h"); the characters the code *)
(* or its libraries do look at (":", "/", "@", ".", digits, "v", blanks)   *)
(* are tokens of their own, so that prefix tests, substring tests,         *)
(* splitting, URL parsing and URL printing are computed, not assumed.      *)
(***************************************************************************)
EXTENDS Integers, Sequences, FiniteSets, TLC

VARIABLES
    pc,            \* where the process is: "idle" between calls, a step of addHelmRepos, or "exited"
    calls,         \* number of addHelmRepos calls started so far
    repos,         \* the argument of the current call: desired name -> url
    todo,          \* names the range loop of the current call has not visited yet
    cur,           \* the entry the loop is at: [name, link]
    existingRepos, \* the map built from the listing (lines 146-157)
    repoAddFlags,  \* line 164-167
    cmd,           \* the prepared 'repo add' command (line 197): its argument list
    trace,         \* external invocations of the current call, in order
    ret,           \* outcome of the current (or last) call
    registered,    \* the external tool's repository file: name -> url
    again,         \* this addHelmRepos call repeats the mapping of the call before it, which succeeded in full
    gate,          \* the last checkHelmVersion call: its constraint, the version stdout, its answer
    vreq,          \* validateChart calls: call -> its arguments [apps, chart, version]
    vtool,         \* what the tool answers to the invocation of each validateChart call
    vpc,           \* where each validateChart call is: "start", "running", "send", "done"
    vran,          \* the external invocations each validateChart call has made
    chan,          \* the report channel's buffer
    received,      \* what the consumer of the report channel has received, in order
    chartInfo      \* a getChartInfo call: arguments, the tool's answer, position, result

repoVars == <<pc, calls, repos, todo, cur, existingRepos, repoAddFlags, cmd, trace, ret, registered, again, gate>>

chartVars == <<vreq, vtool, vpc, vran, chan, received, chartInfo>>

vars == <<repoVars, chartVars>>

----------------------------------------------------------------------------
(* Bounds *)

\* number of addHelmRepos calls one behaviour makes
MaxCalls == 2

----------------------------------------------------------------------------
(* strings package *)

Str(t) == <<t>>

HasPrefix(s, p) == Len(s) >= Len(p) /\ SubSeq(s, 1, Len(p)) = p

Contains(s, sub) ==
    \E i \in 0..(Len(s) - Len(sub)) : SubSeq(s, i + 1, i + Len(sub)) = sub

\* position of the first token t in s, 0 when there is none
Index(s, t) ==
    IF \E i \in 1..Len(s) : s[i] = t
    THEN CHOOSE i \in 1..Len(s) : s[i] = t /\ \A j \in 1..(i - 1) : s[j] # t
    ELSE 0

\* position of the last token t in s, 0 when there is none
LastIndex(s, t) ==
    IF \E i \in 1..Len(s) : s[i] = t
    THEN CHOOSE i \in 1..Len(s) : s[i] = t /\ \A j \in (i + 1)..Len(s) : s[j] # t
    ELSE 0

RECURSIVE Split(_, _)
\* strings.Split(s, sep) for a one-token separator: the pieces between separators
Split(s, sep) ==
    LET i == Index(s, sep)
    IN  IF i = 0 THEN <<s>>
        ELSE <<SubSeq(s, 1, i - 1)>> \o Split(SubSeq(s, i + 1, Len(s)), sep)

Space == {" ", "\n"}

RECURSIVE TrimLeft(_)
TrimLeft(s) == IF s # <<>> /\ Head(s) \in Space THEN TrimLeft(Tail(s)) ELSE s

RECURSIVE TrimRight(_)
TrimRight(s) ==
    IF s # <<>> /\ s[Len(s)] \in Space THEN TrimRight(SubSeq(s, 1, Len(s) - 1)) ELSE s

TrimSpace(s) == TrimRight(TrimLeft(s))

----------------------------------------------------------------------------
(* net/url, as used at lines 183-194 *)

\* characters that end a scheme scan (getScheme): everything else is a letter run
UrlSpecial == {":", "/", "@"}

NoUser == [set |-> FALSE, username |-> <<>>, passwordSet |-> FALSE, password |-> <<>>]

NoUrl == [Scheme |-> <<>>, Opaque |-> <<>>, User |-> NoUser, Host |-> <<>>, Path |-> <<>>]

\* first position of a token that is not part of a scheme, 0 when there is none
SchemeEnd(raw) ==
    IF \E i \in 1..Len(raw) : raw[i] \in UrlSpecial
    THEN CHOOSE i \in 1..Len(raw) :
            raw[i] \in UrlSpecial /\ \A j \in 1..(i - 1) : raw[j] \notin UrlSpecial
    ELSE 0

\* url.parseAuthority: user-info is what precedes the LAST "@"; it carries a
\* password exactly when it contains a ":" (split at the first one)
parseAuthority(authority) ==
    LET i == LastIndex(authority, "@")
        userinfo == SubSeq(authority, 1, i - 1)
        c == Index(userinfo, ":")
    IN  IF i = 0 THEN [User |-> NoUser, Host |-> authority]
        ELSE IF c = 0
             THEN [User |-> [set |-> TRUE, username |-> userinfo,
                             passwordSet |-> FALSE, password |-> <<>>],
                   Host |-> SubSeq(authority, i + 1, Len(authority))]
             ELSE [User |-> [set |-> TRUE, username |-> SubSeq(userinfo, 1, c - 1),
                             passwordSet |-> TRUE,
                             password |-> SubSeq(userinfo, c + 1, Len(userinfo))],
                   Host |-> SubSeq(authority, i + 1, Len(authority))]

\* url.Parse: [err, u].  Queries and fragments are not in the URL alphabet.
urlParse(raw) ==
    LET e == SchemeEnd(raw)
        hasScheme == e > 1 /\ raw[e] = ":"
        scheme == IF hasScheme THEN SubSeq(raw, 1, e - 1) ELSE <<>>
        rest == IF hasScheme THEN SubSeq(raw, e + 1, Len(raw)) ELSE raw
        afterSlashes == SubSeq(rest, 3, Len(rest))
        s == Index(afterSlashes, "/")
        authority == IF s = 0 THEN afterSlashes ELSE SubSeq(afterSlashes, 1, s - 1)
        path == IF s = 0 THEN <<>> ELSE SubSeq(afterSlashes, s, Len(afterSlashes))
        a == parseAuthority(authority)
        firstSeg == Head(Split(rest, "/"))
    IN  IF e = 1 /\ raw[1] = ":"
        THEN [err |-> TRUE, u |-> NoUrl]                 \* missing protocol scheme
        ELSE IF ~HasPrefix(rest, <<"/">>) /\ hasScheme
        THEN [err |-> FALSE, u |-> [NoUrl EXCEPT !.Scheme = scheme, !.Opaque = rest]]
        ELSE IF ~HasPrefix(rest, <<"/">>) /\ Contains(firstSeg, <<":">>)
        THEN [err |-> TRUE, u |-> NoUrl]                 \* first path segment cannot contain colon
        ELSE IF HasPrefix(rest, <<"/", "/">>) /\ (hasScheme \/ ~HasPrefix(rest, <<"/", "/", "/">>))
        THEN [err |-> FALSE,
              u |-> [Scheme |-> scheme, Opaque |-> <<>>, User |-> a.User,
                     Host |-> a.Host, Path |-> path]]
        ELSE [err |-> FALSE, u |-> [NoUrl EXCEPT !.Scheme = scheme, !.Path = rest]]

\* (*Userinfo).String
userString(usr) ==
    usr.username \o (IF usr.passwordSet THEN <<":">> \o usr.password ELSE <<>>)

\* (*URL).String
urlString(u) ==
    LET sch == IF u.Scheme # <<>> THEN u.Scheme \o <<":">> ELSE <<>>
        auth == IF u.Scheme # <<>> \/ u.Host # <<>> \/ u.User.set
                THEN (IF u.Host # <<>> \/ u.Path # <<>> \/ u.User.set THEN <<"/", "/">> ELSE <<>>)
                     \o (IF u.User.set THEN userString(u.User) \o <<"@">> ELSE <<>>)
                     \o u.Host
                ELSE <<>>
        sep == IF u.Path # <<>> /\ Head(u.Path) # "/" /\ u.Host # <<>> THEN <<"/">> ELSE <<>>
    IN  IF u.Opaque # <<>> THEN sch \o u.Opaque
        ELSE sch \o auth \o sep \o u.Path

----------------------------------------------------------------------------
(* github.com/hashicorp/go-version, as used at lines 109-111 *)

Digits == {"0", "1", "2", "3", "4", "5", "6", "7", "8", "9"}

DigitVal(d) ==
    CASE d = "0" -> 0 [] d = "1" -> 1 [] d = "2" -> 2 [] d = "3" -> 3 [] d = "4" -> 4
      [] d = "5" -> 5 [] d = "6" -> 6 [] d = "7" -> 7 [] d = "8" -> 8 [] d = "9" -> 9

RECURSIVE Atoi(_)
\* decimal value of a non-empty digit string
Atoi(ds) ==
    IF Len(ds) = 1 THEN DigitVal(ds[1])
    ELSE 10 * Atoi(SubSeq(ds, 1, Len(ds) - 1)) + DigitVal(ds[Len(ds)])

IsNumber(ds) == ds # <<>> /\ \A i \in 1..Len(ds) : ds[i] \in Digits

\* the nil *Version / nil Constraints a failed parse leaves behind
NilVersion == [nil |-> TRUE, segments |-> <<>>]

\* version.NewVersion: optional "v", dot-separated numbers (padded to three
\* segments), optional "+metadata"; anything else is an error and a nil result
NewVersion(s) ==
    LET body == IF HasPrefix(s, <<"v">>) THEN Tail(s) ELSE s
        plus == Index(body, "+")
        num == IF plus = 0 THEN body ELSE SubSeq(body, 1, plus - 1)
        meta == IF plus = 0 THEN <<>> ELSE SubSeq(body, plus + 1, Len(body))
        parts == Split(num, ".")
        okMeta == plus = 0 \/ (meta # <<>> /\ \A i \in 1..Len(meta) : meta[i] \notin Space \cup {":", "+"})
        okNum == \A i \in 1..Len(parts) : IsNumber(parts[i])
        segs == [i \in 1..Len(parts) |-> Atoi(parts[i])]
    IN  IF okNum /\ okMeta
        THEN [nil |-> FALSE,
              segments |-> segs \o [i \in 1..(3 - Len(segs)) |-> 0]]
        ELSE NilVersion

\* the comparison operators a constraint may start with
ConstraintOps == {"=", "!=", ">", "<", ">=", "<="}

NilConstraints == [nil |-> TRUE, op |-> "", ver |-> NilVersion]

\* version.NewConstraint for a single constraint: operator, blanks, version
NewConstraint(s) ==
    LET t == TrimSpace(s)
        hasOp == t # <<>> /\ Head(t) \in ConstraintOps
        op == IF hasOp THEN Head(t) ELSE "="
        v == NewVersion(TrimLeft(IF hasOp THEN Tail(t) ELSE t))
    IN  IF v.nil THEN NilConstraints ELSE [nil |-> FALSE, op |-> op, ver |-> v]

Seg(segs, i) == IF i <= Len(segs) THEN segs[i] ELSE 0

\* (*Version).Compare on the numeric segments: -1, 0 or 1
Compare(a, b) ==
    LET n == IF Len(a) > Len(b) THEN Len(a) ELSE Len(b)
        diff == {i \in 1..n : Seg(a, i) # Seg(b, i)}
        k == CHOOSE i \in diff : \A j \in diff : i <= j
    IN  IF diff = {} THEN 0 ELSE IF Seg(a, k) < Seg(b, k) THEN -1 ELSE 1

\* ConstraintsCheck with a fault: ">=" and "<=" are tested as ">" and "<"
constraintsCheckStrict(c, v) ==
    IF c.nil THEN "true"
    ELSE IF v.nil THEN "panic"
    ELSE LET r == Compare(v.segments, c.ver.segments)
             sat == CASE c.op = "="  -> r = 0
                      [] c.op = "!=" -> r # 0
                      [] c.op \in {">", ">="} -> r > 0
                      [] c.op \in {"<", "<="} -> r < 0
         IN  IF sat THEN "true" ELSE "false"

\* Constraints.Check(v): "true", "false", or "panic" when it dereferences a nil
\* *Version.  A nil Constraints holds no constraint, so the loop body never runs.
ConstraintsCheck(c, v) ==
    IF c.nil THEN "true"
    ELSE IF v.nil THEN "panic"
    ELSE LET r == Compare(v.segments, c.ver.segments)
             sat == CASE c.op = "="  -> r = 0
                      [] c.op = "!=" -> r # 0
                      [] c.op = ">"  -> r > 0
                      [] c.op = "<"  -> r < 0
                      [] c.op = ">=" -> r >= 0
                      [] c.op = "<=" -> r <= 0
         IN  IF sat THEN "true" ELSE "false"

----------------------------------------------------------------------------
(* checkHelmVersion, lines 103-115, on the output of a version subcommand  *)
(* that exited 0: "true", "false", or "panic" (index out of range at 107,  *)
(* nil dereference inside Check at 111)                                    *)

checkHelmVersion(constraint, output) ==
    LET helmVersion == TrimSpace(output)
        pieces == Split(helmVersion, ":")
    IN  IF ~HasPrefix(helmVersion, <<"v">>) /\ Len(pieces) < 2
        THEN "panic"
        ELSE LET extractedHelmVersion ==
                     IF HasPrefix(helmVersion, <<"v">>) THEN helmVersion
                     ELSE TrimSpace(pieces[2])
             IN  ConstraintsCheck(NewConstraint(constraint), NewVersion(extractedHelmVersion))

----------------------------------------------------------------------------
(* Inputs: the desired mappings a caller passes, and what the external     *)
(* tool may answer                                                         *)

Names == {"a", "b"}

\* the order in which the tool lists its repository file
NameOrder == <<"a", "b">>

Https == <<"https", ":", "/", "/">>

GsPrefix == <<"gs", ":", "/", "/">>

UrlPlain == Https \o <<"h">>

UrlUserPass == Https \o <<"u", ":", "p", "@", "h">>

UrlUserOnly == Https \o <<"u", "@", "h">>

UrlUserPassPath == Https \o <<"u", ":", "p", "@", "h", "/", "c">>

UrlGcs == GsPrefix \o <<"b">>

UrlMalformed == <<":", "h">>

DesiredUrls == {UrlPlain, UrlUserPass, UrlUserOnly, UrlUserPassPath, UrlGcs, UrlMalformed}

\* what the tool's repository file may hold before the first call
RegisteredUrls == {UrlPlain, UrlUserPass, UrlGcs}

Maps(urls) == UNION {[S -> urls] : S \in SUBSET Names}

EmptyMap == [n \in {} |-> <<>>]

\* stderr of a failed listing
NoReposText == <<"Error: ", "no repositories to show">>

ListErrors == {<<"Error: ", "permission denied">>, <<"Error: ", "no repositories">>}

\* stdout of 'helm version --short -c'
VersionNumbers ==
    {<<"3", ".", "4", ".", "0">>, <<"3", ".", "3", ".", "2">>, <<"3", ".", "3", ".", "1">>,
     <<"2", ".", "1", "6", ".", "1">>, <<"3", ".", "1", "0", ".", "0">>, <<"3", ".", "4">>,
     <<"next">>, <<>>}

VersionPrefixes == {<<"v">>, <<>>, <<"Client", ":", " ", "v">>, <<"Client", ":", " ">>, <<"v", "ersion", ":", " ">>}

VersionSuffixes == {<<>>, <<"\n">>, <<"+", "g7090a89", "\n">>}

VersionOutputs == {p \o n \o x : p \in VersionPrefixes, n \in VersionNumbers, x \in VersionSuffixes}

\* stdout of 'helm plugin list'
PluginOutputs == {<<>>, <<"diff">>, <<"diff", "\n", "gcs">>, <<"gcs", "-extra">>}

ExitCodes == {0, 1}

\* stderr of any other failed invocation
ErrText == <<"boom">>

----------------------------------------------------------------------------
(* helmCmd (lines 24-30) and the record of what was run *)

helmCmd(args) == [kind |-> "exec", args |-> args]

\* one finished invocation: exit code, stderr, and stdout where a later decision
\* of the caller is read off it (the plugin listing)
Ran(c, code, errors, output) ==
    [kind |-> c.kind, args |-> c.args, code |-> code, errors |-> errors, output |-> output]

AuthCall == [kind |-> "auth", args |-> <<>>]

cmdList == helmCmd(<<Str("repo"), Str("list"), Str("--output"), Str("json")>>)

cmdVersion == helmCmd(<<Str("version"), Str("--short"), Str("-c")>>)

cmdPluginList == helmCmd(<<Str("plugin"), Str("list")>>)

cmdUpdate == helmCmd(<<Str("repo"), Str("update")>>)

ForceUpdate == <<"--force-update">>

\* the constraint of line 165
Ge332 == <<">=", "3", ".", "3", ".", "2">>

\* line 197
cmdAdd(flags, repoName, repoLink, basicAuthArgs) ==
    helmCmd(<<Str("repo"), Str("add"), flags, Str(repoName), repoLink>> \o basicAuthArgs)

----------------------------------------------------------------------------
(* The external tool *)

\* stdout of 'helm repo list --output json': the repository file as a JSON array
Listing(reg) ==
    [wellFormed |-> TRUE,
     items |-> LET present == SelectSeq(NameOrder, LAMBDA n : n \in DOMAIN reg)
               IN  [i \in 1..Len(present) |-> [Name |-> present[i], Url |-> reg[present[i]]]]]

Garbage == [wellFormed |-> FALSE, items |-> <<>>]

\* the map reg with name set to url (a map assignment in the code, and the tool's
\* 'repo add name url', which records the URL argument it was given)
Put(reg, name, url) == [n \in DOMAIN reg \cup {name} |-> IF n = name THEN url ELSE reg[n]]

RECURSIVE existingFrom(_)
\* lines 155-157: index the decoded records by name, later records winning
existingFrom(helmRepos) ==
    IF helmRepos = <<>> THEN EmptyMap
    ELSE LET n == Len(helmRepos)
             before == existingFrom(SubSeq(helmRepos, 1, n - 1))
         IN  Put(before, helmRepos[n].Name, helmRepos[n].Url)

----------------------------------------------------------------------------
(* addHelmRepos, lines 144-218, one action per external invocation or      *)
(* decision.  log.Fatal and a panic end the process: pc = "exited".        *)

\* no checkHelmVersion call made yet
NoGate == [constraint |-> <<>>, output |-> <<>>, answer |-> "none"]

Outcome(status, msg) == [status |-> status, msg |-> msg]

\* listErrorTolerated with a fault: every listing failure is tolerated
anyListErrorTolerated(errors) == TRUE

\* line 159: the one listing failure that is tolerated
listErrorTolerated(errors) == Contains(errors, <<"no repositories to show">>)

\* addFlags with a fault: the gate's answer is read negated
addFlagsNegated(answer) == IF answer = "false" THEN ForceUpdate ELSE <<>>

\* lines 164-167
addFlags(answer) == IF answer = "true" THEN ForceUpdate ELSE <<>>

\* isGcs with a fault: the prefix is mistyped as gcs://
isGcsMistyped(repoLink) == HasPrefix(repoLink, <<"gcs", ":", "/", "/">>)

\* line 173
isGcs(repoLink) == HasPrefix(repoLink, GsPrefix)

\* helmPluginExists, lines 119-129, on the result of 'plugin list'
helmPluginExists(plugin, code, output) == code = 0 /\ Contains(output, plugin)

\* missingPassword with a fault: the password's presence is not checked
passwordNotChecked(u) == FALSE

\* lines 188-191: user-info without a password
missingPassword(u) == u.User.set /\ ~u.User.passwordSet

\* line 192
basicAuth(u) ==
    IF u.User.set
    THEN <<Str("--username"), u.User.username, Str("--password"), u.User.password>>
    ELSE <<>>

\* strippedLink with a fault: the link is not rewritten after the credentials are read
linkNotRewritten(repoLink, u) == repoLink

\* lines 193-194: the link the add command and the comparison use
strippedLink(repoLink, u) ==
    IF u.User.set THEN urlString([u EXCEPT !.User = NoUser]) ELSE repoLink

\* alreadyPresent with a fault: the comparison of the links is inverted
alreadyPresentInverted(existing, repoName, repoLink) ==
    repoName \in DOMAIN existing /\ repoLink # existing[repoName]

\* alreadyPresent with a fault: a listed name is skipped whatever its link
alreadyPresentByName(existing, repoName, repoLink) == repoName \in DOMAIN existing

\* alreadyPresent with a fault: the link as written in the mapping is compared
alreadyPresentRawLink(existing, repoName, repoLink) ==
    repoName \in DOMAIN existing /\ repos[repoName] = existing[repoName]

\* lines 199-203: continue when the name is listed with this very link
alreadyPresent(existing, repoName, repoLink) ==
    repoName \in DOMAIN existing /\ repoLink = existing[repoName]

\* addFailed with a fault: the exit code of the add is ignored
addExitIgnored(code) == FALSE

\* line 204: what a finished add leads to
addFailed(code) == code # 0

\* needsUpdate with a fault: the refresh does not look at the desired mapping
updateAlways(rs) == TRUE

\* needsUpdate with a fault: the refresh is issued only after some add of the call
updateOnlyIfAdded(rs) ==
    \E i \in 1..Len(trace) :
        trace[i].kind = "exec" /\ Len(trace[i].args) >= 2 /\ trace[i].args[2] = Str("add")

\* line 209
needsUpdate(rs) == Cardinality(DOMAIN rs) > 0

\* no getChartInfo call
NoInfo == [pc |-> "none"]

\* no validateChart and no getChartInfo call is made
NoCharts ==
    /\ vreq = <<>>
    /\ vtool = <<>>
    /\ vpc = <<>>
    /\ vran = <<>>
    /\ chan = <<>>
    /\ received = <<>>
    /\ chartInfo = NoInfo

Fatal(msg) ==
    /\ pc' = "exited"
    /\ ret' = Outcome("fatal", msg)

Panic ==
    /\ pc' = "exited"
    /\ ret' = Outcome("panic", <<"runtime error">>)

Return(status, msg) ==
    /\ pc' = "idle"
    /\ ret' = Outcome(status, msg)

\* what checkHelmVersion(constraint) can answer, over every stdout of a version
\* subcommand that exited 0
GateAnswers(constraint) == {checkHelmVersion(constraint, output) : output \in VersionOutputs}

\* a caller invokes addHelmRepos(repos)
Call ==
    /\ pc = "idle"
    /\ calls < MaxCalls
    /\ \E rs \in Maps(DesiredUrls) :
          /\ repos' = rs
          /\ todo' = DOMAIN rs
          /\ again' = (calls > 0 /\ rs = repos /\ ret.status = "nil"
                          /\ \A i \in 1..Len(trace) : trace[i].code = 0)
    /\ calls' = calls + 1
    /\ pc' = "list"
    /\ cur' = [name |-> "", link |-> <<>>]
    /\ existingRepos' = EmptyMap
    /\ repoAddFlags' = <<>>
    /\ cmd' = helmCmd(<<>>)
    /\ trace' = <<>>
    /\ ret' = Outcome("running", <<>>)
    /\ gate' = NoGate
    /\ UNCHANGED registered
    /\ UNCHANGED chartVars

\* lines 149-162
ListRepos ==
    /\ pc = "list"
    /\ \/ \E output \in {Listing(registered), Garbage} :
             /\ trace' = Append(trace, Ran(cmdList, 0, <<>>, <<>>))
             /\ IF ~output.wellFormed
                THEN /\ Fatal(<<"failed to unmarshal Helm CLI output: ">>)
                     /\ UNCHANGED existingRepos
                ELSE /\ existingRepos' = existingFrom(output.items)
                     /\ pc' = "version"
                     /\ UNCHANGED ret
       \/ \E errors \in ListErrors \cup (IF registered = EmptyMap THEN {NoReposText} ELSE {}) :
             /\ trace' = Append(trace, Ran(cmdList, 1, errors, <<>>))
             /\ UNCHANGED existingRepos
             /\ IF listErrorTolerated(errors)
                THEN pc' = "version" /\ UNCHANGED ret
                ELSE Return("error", <<"while listing helm repositories: ">> \o errors)
    /\ UNCHANGED <<calls, repos, todo, cur, repoAddFlags, cmd, registered, gate>>
    /\ UNCHANGED <<again, chartVars>>

\* lines 164-167, with getHelmVersion (92-101) and checkHelmVersion (103-115)
CheckVersion ==
    /\ pc = "version"
    /\ \/ /\ trace' = Append(trace, Ran(cmdVersion, 1, ErrText, <<>>))
          /\ Fatal(<<"While checking helm version: ">> \o ErrText)
          /\ gate' = [NoGate EXCEPT !.constraint = Ge332]
          /\ UNCHANGED repoAddFlags
       \/ \E answer \in GateAnswers(Ge332) :
             /\ trace' = Append(trace, Ran(cmdVersion, 0, <<>>, <<>>))
             /\ gate' = [constraint |-> Ge332, output |-> <<>>, answer |-> answer]
             /\ IF answer = "panic"
                THEN Panic /\ UNCHANGED repoAddFlags
                ELSE /\ repoAddFlags' = addFlags(answer)
                     /\ pc' = "loop"
                     /\ UNCHANGED ret
    /\ UNCHANGED <<calls, repos, todo, cur, existingRepos, cmd, registered>>
    /\ UNCHANGED <<again, chartVars>>

\* line 169: the range loop takes the next entry, in any order
LoopNext ==
    /\ pc = "loop"
    /\ \E repoName \in todo :
          /\ todo' = todo \ {repoName}
          /\ cur' = [name |-> repoName, link |-> repos[repoName]]
          /\ pc' = IF isGcs(repos[repoName]) THEN "probe" ELSE "parse"
    /\ UNCHANGED <<calls, repos, existingRepos, repoAddFlags, cmd, trace, ret, registered, gate>>
    /\ UNCHANGED <<again, chartVars>>

\* lines 174-176
PluginProbe ==
    /\ pc = "probe"
    /\ \E code \in ExitCodes, output \in PluginOutputs :
          /\ trace' = Append(trace, Ran(cmdPluginList, code, IF code = 0 THEN <<>> ELSE ErrText, output))
          /\ IF helmPluginExists(<<"gcs">>, code, output)
             THEN pc' = "auth" /\ UNCHANGED ret
             ELSE Fatal(<<"repository ">> \o cur.link \o <<" can't be used: helm-gcs plugin is missing">>)
    /\ UNCHANGED <<calls, repos, todo, cur, existingRepos, repoAddFlags, cmd, registered, gate>>
    /\ UNCHANGED <<again, chartVars>>

\* lines 177-180
GcsAuth ==
    /\ pc = "auth"
    /\ \E err \in ExitCodes :
          /\ trace' = Append(trace, Ran(AuthCall, err, IF err = 0 THEN <<>> ELSE ErrText, <<>>))
          /\ IF err # 0
             THEN Fatal(<<"gcs auth failed">>)
             ELSE pc' = "parse" /\ UNCHANGED ret
    /\ UNCHANGED <<calls, repos, todo, cur, existingRepos, repoAddFlags, cmd, registered, gate>>
    /\ UNCHANGED <<again, chartVars>>

\* lines 183-203: parse, extract credentials, prepare the command, skip or not
PrepareAdd ==
    /\ pc = "parse"
    /\ LET parsed == urlParse(cur.link)
           u == parsed.u
           repoLink == strippedLink(cur.link, u)
       IN  IF parsed.err
           THEN Fatal(<<"failed to add helm repo:  ">>) /\ UNCHANGED <<cur, cmd>>
           ELSE IF missingPassword(u)
           THEN /\ Fatal(<<"helm repo ", cur.name, " has incomplete basic auth info. Missing the password!">>)
                /\ UNCHANGED <<cur, cmd>>
           ELSE /\ cur' = [cur EXCEPT !.link = repoLink]
                /\ cmd' = cmdAdd(repoAddFlags, cur.name, repoLink, basicAuth(u))
                /\ pc' = IF alreadyPresent(existingRepos, cur.name, repoLink) THEN "loop" ELSE "add"
                /\ UNCHANGED ret
    /\ UNCHANGED <<calls, repos, todo, existingRepos, repoAddFlags, trace, registered, gate>>
    /\ UNCHANGED <<again, chartVars>>

\* ExecAdd with a fault: the repositories are refreshed after every add
ExecAddThenUpdate ==
    /\ pc = "add"
    /\ \E code \in ExitCodes :
          /\ trace' = IF code = 0
                       THEN trace \o <<Ran(cmd, code, <<>>, <<>>), Ran(cmdUpdate, 0, <<>>, <<>>)>>
                       ELSE Append(trace, Ran(cmd, code, ErrText, <<>>))
          /\ registered' = IF code = 0 THEN Put(registered, cur.name, cmd.args[5]) ELSE registered
          /\ IF addFailed(code)
             THEN Return("error", <<"While adding helm repository [", cur.name, "]: ">> \o ErrText)
             ELSE pc' = "loop" /\ UNCHANGED ret
    /\ UNCHANGED <<calls, repos, todo, cur, existingRepos, repoAddFlags, cmd, gate>>
    /\ UNCHANGED <<again, chartVars>>

\* lines 204-206
ExecAdd ==
    /\ pc = "add"
    /\ \E code \in ExitCodes :
          /\ trace' = Append(trace, Ran(cmd, code, IF code = 0 THEN <<>> ELSE ErrText, <<>>))
          /\ registered' = IF code = 0 THEN Put(registered, cur.name, cmd.args[5]) ELSE registered
          /\ IF addFailed(code)
             THEN Return("error", <<"While adding helm repository [", cur.name, "]: ">> \o ErrText)
             ELSE pc' = "loop" /\ UNCHANGED ret
    /\ UNCHANGED <<calls, repos, todo, cur, existingRepos, repoAddFlags, cmd, gate>>
    /\ UNCHANGED <<again, chartVars>>

\* lines 209-217, reached when the loop has visited every entry
Finish ==
    /\ pc = "loop"
    /\ todo = {}
    /\ IF needsUpdate(repos)
       THEN \E code \in ExitCodes :
               /\ trace' = Append(trace, Ran(cmdUpdate, code, IF code = 0 THEN <<>> ELSE ErrText, <<>>))
               /\ IF code # 0
                  THEN Return("error", <<"While updating helm repos : ">> \o ErrText)
                  ELSE Return("nil", <<>>)
       ELSE Return("nil", <<>>) /\ UNCHANGED trace
    /\ UNCHANGED <<calls, repos, todo, cur, existingRepos, repoAddFlags, cmd, registered, gate>>
    /\ UNCHANGED <<again, chartVars>>

Init ==
    /\ pc = "idle"
    /\ calls = 0
    /\ repos = EmptyMap
    /\ todo = {}
    /\ cur = [name |-> "", link |-> <<>>]
    /\ existingRepos = EmptyMap
    /\ repoAddFlags = <<>>
    /\ cmd = helmCmd(<<>>)
    /\ trace = <<>>
    /\ ret = Outcome("none", <<>>)
    /\ registered \in Maps(RegisteredUrls)
    /\ again = FALSE
    /\ gate = NoGate
    /\ NoCharts

Next ==
    \/ Call
    \/ ListRepos
    \/ CheckVersion
    \/ LoopNext
    \/ PluginProbe
    \/ GcsAuth
    \/ PrepareAdd
    \/ ExecAdd
    \/ Finish

Spec == Init /\ [][Next]_vars

----------------------------------------------------------------------------
(* checkHelmVersion called on its own, with any constraint *)

\* constraint strings a caller may pass
Constraints ==
    {Ge332,
     <<">=", "3", ".", "5", ".", "0">>,
     <<">=", " ", "3", ".", "3", ".", "2">>,
     <<"<", "3", ".", "0", ".", "0">>,
     <<"3", ".", "4", ".", "0">>,
     <<"!=", "3", ".", "4">>,
     <<">=">>,
     <<"latest">>,
     <<>>}

GateInit ==
    /\ pc = "gate"
    /\ calls = 0
    /\ repos = EmptyMap
    /\ todo = {}
    /\ cur = [name |-> "", link |-> <<>>]
    /\ existingRepos = EmptyMap
    /\ repoAddFlags = <<>>
    /\ cmd = helmCmd(<<>>)
    /\ trace = <<>>
    /\ ret = Outcome("running", <<>>)
    /\ registered = EmptyMap
    /\ \E c \in Constraints : gate = [NoGate EXCEPT !.constraint = c]
    /\ again = FALSE
    /\ NoCharts

\* getHelmVersion, lines 92-101
GateVersion ==
    /\ pc = "gate"
    /\ \/ /\ trace' = Append(trace, Ran(cmdVersion, 1, ErrText, <<>>))
          /\ Fatal(<<"While checking helm version: ">> \o ErrText)
          /\ UNCHANGED gate
       \/ \E output \in VersionOutputs :
             /\ trace' = Append(trace, Ran(cmdVersion, 0, <<>>, <<>>))
             /\ gate' = [gate EXCEPT !.output = output]
             /\ pc' = "gateCheck"
             /\ UNCHANGED ret
    /\ UNCHANGED <<calls, repos, todo, cur, existingRepos, repoAddFlags, cmd, registered>>
    /\ UNCHANGED <<again, chartVars>>

\* checkHelmVersion, lines 104-114, once getHelmVersion has returned
GateCheck ==
    /\ pc = "gateCheck"
    /\ LET answer == checkHelmVersion(gate.constraint, gate.output)
       IN  /\ gate' = [gate EXCEPT !.answer = answer]
           /\ IF answer = "panic" THEN Panic ELSE Return(answer, <<>>)
    /\ UNCHANGED <<calls, repos, todo, cur, existingRepos, repoAddFlags, cmd, trace, registered>>
    /\ UNCHANGED <<again, chartVars>>

GateNext == GateVersion \/ GateCheck

GateSpec == GateInit /\ [][GateNext]_vars

----------------------------------------------------------------------------
(* Reading the record of a call *)

isList(r) == r.kind = "exec" /\ r.args = cmdList.args

isVersion(r) == r.kind = "exec" /\ r.args = cmdVersion.args

isProbe(r) == r.kind = "exec" /\ r.args = cmdPluginList.args

isAuth(r) == r.kind = "auth"

isUpdate(r) == r.kind = "exec" /\ r.args = cmdUpdate.args

isAdd(r) ==
    r.kind = "exec" /\ Len(r.args) >= 5 /\ r.args[1] = Str("repo") /\ r.args[2] = Str("add")

\* an add invocation for the repository called n
isAddOf(r, n) == isAdd(r) /\ r.args[4] = Str(n)

Adds == {i \in 1..Len(trace) : isAdd(trace[i])}

Updates == {i \in 1..Len(trace) : isUpdate(trace[i])}

AddedFor(n) == \E i \in 1..Len(trace) : isAddOf(trace[i], n)

\* the listing of the current call has been read and decoded
Listed == pc \in {"version", "loop", "probe", "auth", "parse", "add"} \/ (pc \in {"idle", "exited"} /\ Len(trace) >= 2)

\* the current call ran its loop to the end and returned from lines 209-217
LoopCompleted ==
    /\ pc = "idle"
    /\ \/ ret.status = "nil"
       \/ ret.status = "error" /\ HasPrefix(ret.msg, <<"While updating helm repos : ">>)

\* A URL of the shape scheme://[user-info@]host[/path], read off its text: the
\* position of the "@" that ends the user-info, 0 when there is none
AtSign(url) ==
    LET slash == Index(SubSeq(url, 5, Len(url)), "/")
        authorityEnd == IF slash = 0 THEN Len(url) ELSE 4 + slash - 1
        ats == {i \in 5..authorityEnd : url[i] = "@"}
    IN  IF ats = {} THEN 0 ELSE CHOOSE i \in ats : \A j \in ats : j <= i

WellFormedUrl(url) == Len(url) > 4 /\ SubSeq(url, 2, 4) = <<":", "/", "/">>

\* the user-info text of a URL, "@" included: "user:pass@"
UserInfoText(url) == SubSeq(url, 5, AtSign(url))

HasUserInfo(url) == WellFormedUrl(url) /\ AtSign(url) > 0

HasPassword(url) == HasUserInfo(url) /\ Index(UserInfoText(url), ":") > 0

\* the URL with its user-info removed
WithoutUserInfo(url) ==
    IF HasUserInfo(url) THEN SubSeq(url, 1, 4) \o SubSeq(url, AtSign(url) + 1, Len(url)) ELSE url

----------------------------------------------------------------------------
(* C1 *)

\* C1 as stated: a desired entry whose name is listed with the very URL the
\* caller desires is never the subject of a 'repo add' in that call.
C1_AsStated ==
    \A n \in DOMAIN repos :
        (Listed /\ n \in DOMAIN existingRepos /\ existingRepos[n] = repos[n])
            => ~AddedFor(n)

\* C1, amended: a desired entry whose name is listed with a URL identical to
\* the desired URL after user-info stripping is never the subject of a
\* 'repo add' in that call, whatever the other entries and the iteration order.
C1_SkipWhenListedWithStrippedUrl ==
    \A n \in DOMAIN repos :
        (Listed /\ n \in DOMAIN existingRepos /\ existingRepos[n] = WithoutUserInfo(repos[n]))
            => ~AddedFor(n)

\* a call that returned nil after skipping a credentialed entry listed under
\* its stripped URL, while adding the other entry
C1_Witness ==
    /\ pc = "idle" /\ ret.status = "nil"
    /\ \E n \in DOMAIN repos :
          /\ HasPassword(repos[n])
          /\ n \in DOMAIN existingRepos /\ existingRepos[n] = WithoutUserInfo(repos[n])
          /\ ~AddedFor(n)
          /\ \E m \in DOMAIN repos \ {n} : AddedFor(m)

----------------------------------------------------------------------------
(* C2 *)

MissingPasswordFatal ==
    /\ pc = "exited" /\ ret.status = "fatal"
    /\ Contains(ret.msg, <<" has incomplete basic auth info. Missing the password!">>)

\* C2 as stated: when the call dies on a user@host URL, no external invocation
\* has been made.
C2_AsStated == MissingPasswordFatal => trace = <<>>

\* C2, amended: a desired user@host URL makes the call die when the loop
\* reaches that entry: no add is ever issued for it and no refresh follows,
\* but the listing and the version check have already run by then.
C2_MissingPasswordFatalAtEntry ==
    /\ \A n \in DOMAIN repos :
          (HasUserInfo(repos[n]) /\ ~HasPassword(repos[n]))
              => /\ ~AddedFor(n)
                 /\ n \notin todo =>
                       \/ cur.name = n /\ pc \in {"probe", "auth", "parse"}
                       \/ cur.name = n /\ pc = "exited" /\ ret.status = "fatal"
    /\ MissingPasswordFatal =>
          /\ Len(trace) >= 2 /\ isList(trace[1]) /\ isVersion(trace[2])
          /\ Updates = {}
          /\ HasUserInfo(repos[cur.name]) /\ ~HasPassword(repos[cur.name])

\* the call died on a user@host entry after adding the other entry
C2_Witness == MissingPasswordFatal /\ Adds # {}

----------------------------------------------------------------------------
(* C3 *)

\* C3: for a desired URL embedding user:pass@host, no argument of any
\* invocation of the call contains the text "user:pass@"; the URL argument of
\* its add is the URL without user-info, and user and password are passed as
\* the values of --username and --password.
C3_CredentialsStripped ==
    \A n \in DOMAIN repos :
        HasPassword(repos[n]) =>
            LET info == UserInfoText(repos[n])
                colon == Index(info, ":")
                user == SubSeq(info, 1, colon - 1)
                pass == SubSeq(info, colon + 1, Len(info) - 1)
            IN  /\ \A i \in 1..Len(trace) : \A j \in 1..Len(trace[i].args) :
                      ~Contains(trace[i].args[j], info)
                /\ \A i \in 1..Len(trace) :
                      isAddOf(trace[i], n) =>
                         /\ trace[i].args[5] = WithoutUserInfo(repos[n])
                         /\ Index(trace[i].args[5], "@") = 0
                         /\ SubSeq(trace[i].args, 6, Len(trace[i].args))
                               = <<Str("--username"), user, Str("--password"), pass>>

\* an add of a credentialed entry was issued, with the credentials as arguments
C3_Witness ==
    \E n \in DOMAIN repos : \E i \in 1..Len(trace) :
        /\ HasPassword(repos[n])
        /\ isAddOf(trace[i], n)
        /\ trace[i].code = 0
        /\ Len(trace[i].args) = 9

----------------------------------------------------------------------------
(* C4 *)

\* C4: a call that runs its add loop to the end issues 'repo update' exactly
\* once when the desired mapping is non-empty and never when it is empty; the
\* update is the last invocation of the call (after every add, between no two
\* adds), and its non-zero exit makes the call return an error.
C4_SingleTrailingUpdate ==
    /\ Cardinality(Updates) <= 1
    /\ \A i \in Updates :
          /\ i = Len(trace)
          /\ LoopCompleted
          /\ trace[i].code # 0 <=> ret.status = "error"
    /\ LoopCompleted =>
          /\ repos # EmptyMap => Cardinality(Updates) = 1
          /\ repos = EmptyMap => Updates = {}

\* a call that added both entries and then refreshed once, successfully
C4_Witness ==
    /\ LoopCompleted /\ ret.status = "nil"
    /\ Cardinality(Adds) = 2
    /\ Updates = {Len(trace)}

----------------------------------------------------------------------------
(* C5 *)

\* C5 as stated: a completed call in which every desired entry was skipped
\* (no add was issued) issues no 'repo update'.
C5_AsStated == (LoopCompleted /\ Adds = {}) => Updates = {}

\* C5, amended: the refresh does not depend on a change having occurred: a
\* call that completes its loop with a non-empty desired mapping issues the
\* 'repo update' even when every entry was skipped and no add was issued;
\* only a call with an empty desired mapping issues none.
C5_UpdateEvenWhenAllSkipped ==
    (LoopCompleted /\ Adds = {}) => (Updates # {} <=> repos # EmptyMap)

\* both desired entries were skipped as already registered, and the call
\* still refreshed
C5_Witness ==
    /\ LoopCompleted /\ Adds = {}
    /\ Cardinality(DOMAIN repos) = 2
    /\ \A n \in DOMAIN repos : n \in DOMAIN existingRepos /\ existingRepos[n] = repos[n]
    /\ Updates # {}

----------------------------------------------------------------------------
(* C6 *)

\* C6: a 'repo add' that exits non-zero is the last invocation of its call:
\* the call returns an error naming that repository, the remaining entries
\* are not added, nothing is refreshed, and the repositories added earlier in
\* the call stay registered as they were added.
C6_AddFailureAborts ==
    \A i \in Adds :
        trace[i].code # 0 =>
            /\ i = Len(trace)
            /\ pc = "idle" /\ ret.status = "error"
            /\ Contains(ret.msg, trace[i].args[4])
            /\ Updates = {}
            /\ \A j \in Adds :
                  j < i => /\ trace[j].code = 0
                           /\ trace[j].args[4][1] \in DOMAIN registered
                           /\ registered[trace[j].args[4][1]] = trace[j].args[5]

\* the second add of a call failed after the first had succeeded
C6_Witness ==
    \E i \in Adds : \E j \in Adds :
        j < i /\ trace[i].code # 0 /\ trace[j].code = 0 /\ pc = "idle"

----------------------------------------------------------------------------
(* C7 *)

\* C7: after a listing that exits non-zero the call goes on, with an empty
\* existing-state mapping, only if the error text contains "no repositories to
\* show"; otherwise the listing is its only invocation and it returns an error.
C7_ListFailure ==
    (trace # <<>> /\ isList(trace[1]) /\ trace[1].code # 0) =>
        IF Contains(trace[1].errors, <<"no repositories to show">>)
        THEN existingRepos = EmptyMap /\ (pc = "idle" => Len(trace) > 1)
        ELSE Len(trace) = 1 /\ pc = "idle" /\ ret.status = "error"
             /\ HasPrefix(ret.msg, <<"while listing helm repositories: ">>)

\* the listing reported "no repositories to show" and the call went on to add
C7_Witness ==
    /\ trace # <<>> /\ isList(trace[1]) /\ trace[1].code # 0
    /\ Adds # {}

----------------------------------------------------------------------------
(* C8 *)

\* C8: every add of a call comes after the version check of that call, which
\* asked the gate for ">=3.3.2"; when the gate answered true every add of the
\* call carries --force-update, when it answered false none does.
C8_UniformForceUpdate ==
    \A i \in Adds :
        /\ \E j \in 1..(i - 1) : isVersion(trace[j]) /\ trace[j].code = 0
        /\ gate.constraint = <<">=", "3", ".", "3", ".", "2">>
        /\ gate.answer \in {"true", "false"}
        /\ gate.answer = "true" => trace[i].args[3] = <<"--force-update">>
        /\ gate.answer = "false" =>
              \A k \in 1..Len(trace[i].args) : ~Contains(trace[i].args[k], <<"--force-update">>)

\* two adds issued under a gate that answered true
C8_Witness == Cardinality(Adds) = 2 /\ gate.answer = "true"

----------------------------------------------------------------------------
(* C9 *)

\* the plugin listing recorded at r shows no gcs plugin
PluginMissing(r) == r.code # 0 \/ ~Contains(r.output, <<"gcs">>)

\* entries the loop has taken whose link starts with gs://
GcsVisited == {n \in DOMAIN repos \ todo : HasPrefix(repos[n], <<"gs", ":", "/", "/">>)}

----------------------------------------------------------------------------
(* C10 *)

\* the version token checkHelmVersion extracts from the trimmed stdout
ExtractedToken(output) ==
    LET t == TrimSpace(output)
    IN  IF HasPrefix(t, <<"v">>) THEN t ELSE TrimSpace(Split(t, ":")[2])

NoPrefixNoColon(output) ==
    ~HasPrefix(TrimSpace(output), <<"v">>) /\ Index(TrimSpace(output), ":") = 0

\* the call's version subcommand exited 0 and something does not parse
ParsingFails ==
    \/ NoPrefixNoColon(gate.output)
    \/ NewVersion(ExtractedToken(gate.output)).nil
    \/ NewConstraint(gate.constraint).nil

GateFinished == pc \in {"idle", "exited"}

\* C10 as stated: a checkHelmVersion call whose version subcommand exited 0
\* but whose output or constraint does not parse returns false, and the call
\* ends the process only when the version subcommand exits non-zero.
C10_AsStated ==
    GateFinished =>
        /\ (trace[1].code = 0 /\ ParsingFails) => (pc = "idle" /\ ret.status = "false")
        /\ pc = "exited" => (trace[1].code # 0 /\ ret.status = "fatal")

----------------------------------------------------------------------------
(* C11 *)

\* the numbers of a version text v?N(.N)*(+metadata)?, most significant first
NumbersOf(token) ==
    LET body == IF HasPrefix(token, <<"v">>) THEN Tail(token) ELSE token
        plus == Index(body, "+")
        parts == Split(IF plus = 0 THEN body ELSE SubSeq(body, 1, plus - 1), ".")
    IN  [i \in 1..Len(parts) |-> Atoi(parts[i])]

\* one integer that orders versions of up to three numbers, each below 100
Weight(nums) ==
    (IF Len(nums) >= 1 THEN 10000 * nums[1] ELSE 0)
    + (IF Len(nums) >= 2 THEN 100 * nums[2] ELSE 0)
    + (IF Len(nums) >= 3 THEN nums[3] ELSE 0)

\* the range "op version" holds of the version text token
InRange(token, constraint) ==
    LET t == TrimSpace(constraint)
        op == IF Head(t) \in ConstraintOps THEN Head(t) ELSE "="
        bound == Weight(NumbersOf(TrimSpace(IF Head(t) \in ConstraintOps THEN Tail(t) ELSE t)))
        w == Weight(NumbersOf(token))
    IN  CASE op = "="  -> w = bound
          [] op = "!=" -> w # bound
          [] op = ">"  -> w > bound
          [] op = "<"  -> w < bound
          [] op = ">=" -> w >= bound
          [] op = "<=" -> w <= bound

V340 == <<"v", "3", ".", "4", ".", "0">>

\* C11: when the version subcommand exits 0 and version and constraint are well
\* formed, checkHelmVersion returns true exactly when the version (the output
\* as-is when it starts with "v", else the trimmed second field of its split
\* on ":") lies in the range; "v3.4.0" gives true for ">=3.3.2" and false for
\* ">=3.5.0".
C11_GateDecidesRange ==
    (GateFinished /\ trace[1].code = 0 /\ ~ParsingFails) =>
        /\ pc = "idle"
        /\ ret.status \in {"true", "false"}
        /\ ret.status = "true" <=> InRange(ExtractedToken(gate.output), gate.constraint)
        /\ (gate.output = V340 /\ gate.constraint = <<">=", "3", ".", "3", ".", "2">>)
              => ret.status = "true"
        /\ (gate.output = V340 /\ gate.constraint = <<">=", "3", ".", "5", ".", "0">>)
              => ret.status = "false"

\* the legacy output "Client: v2.16.1+g7090a89\n" was reduced to its second
\* field and found below 3.3.2
C11_Witness ==
    /\ GateFinished /\ trace[1].code = 0
    /\ gate.output = <<"Client", ":", " ", "v", "2", ".", "1", "6", ".", "1", "+", "g7090a89", "\n">>
    /\ gate.constraint = <<">=", "3", ".", "3", ".", "2">>
    /\ ret.status = "false"

(***************************************************************************)
(* validateChart (lines 35-68): one call per chart, all calls sharing one  *)
(* report channel.                                                         *)
(***************************************************************************)

\* how many validateChart calls run concurrently
NumCharts == 2

\* the largest capacity the report channel is created with (0 = unbuffered)
ChanCap == 1

Quotes == {"'", "\""}

RECURSIVE trimQuotesLeft(_)
trimQuotesLeft(s) == IF s # <<>> /\ Head(s) \in Quotes THEN trimQuotesLeft(Tail(s)) ELSE s

RECURSIVE trimQuotesRight(_)
trimQuotesRight(s) ==
    IF s # <<>> /\ s[Len(s)] \in Quotes THEN trimQuotesRight(SubSeq(s, 1, Len(s) - 1)) ELSE s

\* strings.Trim(s, `'"`), lines 48-49
trimQuotes(s) == trimQuotesRight(trimQuotesLeft(s))

\* the end of the line that position from is on: (.*) does not cross a newline
LineEnd(s, from) ==
    LET ends == {j \in from..Len(s) : s[j] = "\n"}
    IN  IF ends = {} THEN Len(s) + 1 ELSE CHOOSE j \in ends : \A k \in ends : j <= k

\* versionExtractor.FindStringSubmatch, line 32 and line 46: the leftmost
\* newline directly followed by "version:", then at most one whitespace
\* character (a newline is one), then the rest of that line as the submatch.
\* No match: the empty list; a match: the match and its one submatch.
versionExtractor(output) ==
    LET starts == {i \in 1..(Len(output) - 1) : output[i] = "\n" /\ output[i + 1] = "version:"}
    IN  IF starts = {} THEN <<>>
        ELSE LET i == CHOOSE j \in starts : \A k \in starts : j <= k
                 from == IF i + 2 <= Len(output) /\ output[i + 2] \in Space THEN i + 3 ELSE i + 2
                 to == LineEnd(output, from)
             IN  <<SubSeq(output, i, to - 1), SubSeq(output, from, to - 1)>>

\* a chart reference is a filesystem path when it has a path separator and is
\* not of the shape repo-name/chart-name
isLocalChart(chart) ==
    /\ Contains(chart, <<"/">>)
    /\ ~(Len(chart) = 3 /\ chart[2] = "/" /\ chart[1] \notin {".", "..", "/"} /\ chart[3] # "/")

\* filepath.Base(filepath.Dir(chart)), line 41: the name of the directory the
\* chart's directory is in
maybeRepo(chart) ==
    LET parts == SelectSeq(Split(chart, "/"), LAMBDA x : x # <<>> /\ x # <<".">>)
    IN  IF Len(parts) >= 2 THEN parts[Len(parts) - 1]
        ELSE IF chart # <<>> /\ Head(chart) = "/" THEN <<"/">> ELSE <<".">>

\* lines 37 and 56-60: the one command of a validateChart call
validateCmd(chart, version) ==
    IF isLocalChart(chart)
    THEN helmCmd(<<Str("inspect"), Str("chart"), chart>>)
    ELSE helmCmd(<<Str("search"), Str("repo"), chart, Str("--version"),
                   IF Len(version) = 0 THEN Str("*") ELSE version, Str("-l")>>)

\* lines 42-43
localNotFoundMsg(apps, chart, errors) ==
    <<"Chart [ ">> \o chart \o <<" ] for apps [">> \o apps
        \o <<"] can't be found. Inspection returned error: \"">> \o TrimSpace(errors)
        \o <<"\" -- If this is not a local chart, add the repo [ ">> \o maybeRepo(chart)
        \o <<" ] in your helmRepos stanza.">>

\* mismatchMsg with a fault: the message does not say which chart it is about
mismatchMsgAnonymous(apps, chart, version, v) ==
    <<"Chart with version [ ">> \o version \o <<" ] is specified ">>
        \o <<"but the chart found at that path has version [ ">> \o v
        \o <<" ] which does not match.">>

\* lines 50-51
mismatchMsg(apps, chart, version, v) ==
    <<"Chart [ ">> \o chart \o <<" ] with version [ ">> \o version \o <<" ] is specified for ">>
        \o <<"apps [">> \o apps \o <<"] but the chart found at that path has version [ ">> \o v
        \o <<" ] which does not match.">>

\* lines 63-64
remoteNotFoundMsg(apps, chart, version) ==
    <<"Chart [ ">> \o chart \o <<" ] with version [ ">> \o version \o <<" ] is specified for ">>
        \o <<"apps [">> \o apps \o <<"] but was not found. If this is not a local chart, ">>
        \o <<"define its helm repo in the helmRepo stanza in your DSF.">>

NoResultsFound == "No results found"

\* remoteNotFound with a fault: only the exit code is looked at
remoteNotFoundExitOnly(result) == result.code # 0

\* line 62
remoteNotFound(result) == result.code # 0 \/ Contains(result.output, <<NoResultsFound>>)

\* versionMismatch with a fault: the requested version keeps its quotes
versionMismatchRaw(version, v) == version # v

\* line 49
versionMismatch(version, v) == trimQuotes(version) # v

Silent == [sends |-> FALSE, msg |-> <<>>]

Report(msg) == [sends |-> TRUE, msg |-> msg]

\* lines 36-67 after the command returned result: what the call sends, if anything
validateChart(apps, chart, version, result) ==
    IF isLocalChart(chart)
    THEN IF result.code # 0
         THEN Report(localNotFoundMsg(apps, chart, result.errors))
         ELSE LET matches == versionExtractor(result.output)
              IN  IF Len(matches) = 2
                  THEN LET v == trimQuotes(matches[2])
                       IN  IF versionMismatch(version, v)
                           THEN Report(mismatchMsg(apps, chart, version, v))
                           ELSE Silent
                  ELSE Silent
    ELSE IF remoteNotFound(result)
         THEN Report(remoteNotFoundMsg(apps, chart, version))
         ELSE Silent

\* -- inputs ---------------------------------------------------------------

LocalChart == <<".", "/", "charts", "/", "app">>

LocalChartUp == <<"..", "/", "web">>

RemoteChart == <<"stable", "/", "app">>

Charts == {LocalChart, LocalChartUp, RemoteChart}

AppNames == <<Str("app1"), Str("app2"), Str("app3"), Str("app4")>>

ChartVersions == {<<"1.2.3">>, <<"\"", "1.2.3", "\"">>, <<"1.2.4">>, <<>>}

\* the text the tool prints for a chart: its head line, then, when the chart
\* declares a version, a line "version:" sep quote value quote, then a last line
ChartText(hasLine, sep, quote, value) ==
    <<"name: app">>
        \o (IF hasLine THEN <<"\n", "version:">> \o sep \o quote \o value \o quote ELSE <<>>)
        \o <<"\n", "appVersion:", " ", "1.2.4", "\n">>

\* the charts on disk: whether a version line is printed, and what it declares
ChartFiles ==
    {[hasLine |-> FALSE, sep |-> <<>>, quote |-> <<>>, value |-> <<>>]}
        \cup [hasLine : {TRUE}, sep : {<<" ">>, <<>>}, quote : {<<>>, <<"'">>, <<"\"">>},
              value : {<<"1.2.3">>}]
        \cup [hasLine : {TRUE}, sep : {<<" ">>}, quote : {<<>>}, value : {<<"1.2.4">>}]

InspectOutputs ==
    {ChartText(f.hasLine, f.sep, f.quote, f.value) : f \in ChartFiles}
        \cup {<<"version:", " ", "1.2.4", "\n", "name: app", "\n">>}

SearchOutputs ==
    {<<"NAME", "\n", "stable", "/", "app", " ", "1.2.3", "\n">>, <<NoResultsFound, "\n">>}

\* what the tool can answer to the one command of a call
ToolAnswers ==
    [code : ExitCodes, output : InspectOutputs \cup SearchOutputs, errors : {ErrText \o <<"\n">>}]

\* the concurrent calls: a chart and what the tool answers for it
ConcCases ==
    {[chart |-> LocalChart,
      answer |-> [code |-> 0, output |-> ChartText(TRUE, <<" ">>, <<"'">>, <<"1.2.3">>), errors |-> <<>>]],
     [chart |-> LocalChart,
      answer |-> [code |-> 0, output |-> ChartText(TRUE, <<" ">>, <<>>, <<"1.2.4">>), errors |-> <<>>]],
     [chart |-> LocalChart,
      answer |-> [code |-> 1, output |-> <<>>, errors |-> ErrText \o <<"\n">>]],
     [chart |-> RemoteChart,
      answer |-> [code |-> 0, output |-> <<NoResultsFound, "\n">>, errors |-> <<>>]]}

\* -- the calls as processes ----------------------------------------------

ChartCalls == DOMAIN vpc

\* what call p found, once its command has returned
Found(p) == validateChart(vreq[p].apps, vreq[p].chart, vreq[p].version, vtool[p])

\* VInvoke with a fault: no command is started while another call waits to send
VInvokeSerial(p) ==
    /\ vpc[p] = "start"
    /\ \A q \in ChartCalls : vpc[q] # "send"
    /\ vpc' = [vpc EXCEPT ![p] = "running"]
    /\ vran' = [vran EXCEPT ![p] = Append(@, validateCmd(vreq[p].chart, vreq[p].version))]
    /\ UNCHANGED <<vreq, vtool, chan, received, chartInfo>>
    /\ UNCHANGED repoVars

\* lines 37-39 and 60-62: cmd.Exec() is entered
VInvoke(p) ==
    /\ vpc[p] = "start"
    /\ vpc' = [vpc EXCEPT ![p] = "running"]
    /\ vran' = [vran EXCEPT ![p] = Append(@, validateCmd(vreq[p].chart, vreq[p].version))]
    /\ UNCHANGED <<vreq, vtool, chan, received, chartInfo>>
    /\ UNCHANGED repoVars

\* lines 40-54 and 62-66: cmd.Exec() returns; the call either has a message to
\* send or returns
VComplete(p) ==
    /\ vpc[p] = "running"
    /\ vpc' = [vpc EXCEPT ![p] = IF Found(p).sends THEN "send" ELSE "done"]
    /\ UNCHANGED <<vreq, vtool, vran, chan, received, chartInfo>>
    /\ UNCHANGED repoVars

\* c <- msg on a channel with room in its buffer, then return
VSend(p) ==
    /\ vpc[p] = "send"
    /\ Len(chan.buf) < chan.cap
    /\ chan' = [chan EXCEPT !.buf = Append(@, Found(p).msg)]
    /\ vpc' = [vpc EXCEPT ![p] = "done"]
    /\ UNCHANGED <<vreq, vtool, vran, received, chartInfo>>
    /\ UNCHANGED repoVars

\* c <- msg handed to the consumer waiting in its receive, then return
VHandoff(p) ==
    /\ vpc[p] = "send"
    /\ chan.buf = <<>>
    /\ received' = Append(received, Found(p).msg)
    /\ vpc' = [vpc EXCEPT ![p] = "done"]
    /\ UNCHANGED <<vreq, vtool, vran, chan, chartInfo>>
    /\ UNCHANGED repoVars

\* the consumer takes the oldest message out of the buffer
VRecv ==
    /\ chan.buf # <<>>
    /\ received' = Append(received, Head(chan.buf))
    /\ chan' = [chan EXCEPT !.buf = Tail(@)]
    /\ UNCHANGED <<vreq, vtool, vpc, vran, chartInfo>>
    /\ UNCHANGED repoVars

\* addHelmRepos is not called
NoRepos ==
    /\ pc = "idle"
    /\ calls = 0
    /\ repos = EmptyMap
    /\ todo = {}
    /\ cur = [name |-> "", link |-> <<>>]
    /\ existingRepos = EmptyMap
    /\ repoAddFlags = <<>>
    /\ cmd = helmCmd(<<>>)
    /\ trace = <<>>
    /\ ret = Outcome("none", <<>>)
    /\ registered = EmptyMap
    /\ again = FALSE
    /\ gate = NoGate

\* one validateChart call, any chart, version and tool answer
ValidateInit ==
    /\ NoRepos
    /\ vreq \in [{1} -> [apps : {AppNames[1]}, chart : Charts, version : ChartVersions]]
    /\ vtool \in [{1} -> ToolAnswers]
    /\ vpc = [p \in {1} |-> "start"]
    /\ vran = [p \in {1} |-> <<>>]
    /\ chan \in [cap : 0..ChanCap, buf : {<<>>}]
    /\ received = <<>>
    /\ chartInfo = NoInfo

\* NumCharts calls, one per app, on one channel
ConcInit ==
    /\ NoRepos
    /\ \E cases \in [1..NumCharts -> ConcCases] :
           /\ vreq = [p \in 1..NumCharts |->
                         [apps |-> AppNames[p], chart |-> cases[p].chart, version |-> <<"1.2.3">>]]
           /\ vtool = [p \in 1..NumCharts |-> cases[p].answer]
    /\ vpc = [p \in 1..NumCharts |-> "start"]
    /\ vran = [p \in 1..NumCharts |-> <<>>]
    /\ chan \in [cap : {0, ChanCap}, buf : {<<>>}]
    /\ received = <<>>
    /\ chartInfo = NoInfo

ValidateNext ==
    \/ \E p \in ChartCalls : VInvoke(p)
    \/ \E p \in ChartCalls : VComplete(p)
    \/ \E p \in ChartCalls : VSend(p)
    \/ \E p \in ChartCalls : VHandoff(p)
    \/ VRecv

ValidateSpec == ValidateInit /\ [][ValidateNext]_vars

ConcSpec == ConcInit /\ [][ValidateNext]_vars

\* the calls and the consumer keep running: a command that was started returns,
\* a send or a receive that is possible is taken
ConcFairness == WF_vars(ValidateNext)

FairConcSpec == ConcSpec /\ ConcFairness

\* -- reading a validation off the state ------------------------------------

\* every message that left a call: still buffered, or with the consumer
Delivered == received \o chan.buf

\* a version as written, its quote characters left out
Unquoted(version) == SelectSeq(version, LAMBDA t : t \notin Quotes)

\* the charts whose printed text is output and that declare a version
Declaring(output) ==
    {f \in ChartFiles : f.hasLine /\ ChartText(f.hasLine, f.sep, f.quote, f.value) = output}

\* the chart printed as output declares a version other than the requested one
DeclaresOther(version, output) ==
    \E f \in Declaring(output) : f.value # Unquoted(version)

\* the four problems a call reports
Problem(p) ==
    IF isLocalChart(vreq[p].chart)
    THEN \/ vtool[p].code # 0
         \/ vtool[p].code = 0 /\ DeclaresOther(vreq[p].version, vtool[p].output)
    ELSE \/ vtool[p].code # 0
         \/ \E i \in 1..Len(vtool[p].output) : vtool[p].output[i] = NoResultsFound

\* C12: a validateChart call runs exactly one command (an inspection of a
\* local chart, a search for a remote one), and sends at most one message;
\* when it has returned it has sent exactly one message if the inspection
\* failed, the declared version differs, or the search failed or printed
\* "No results found", and none in every other case.
C12_OneCommandAtMostOneMessage ==
    \A p \in ChartCalls :
        /\ vpc[p] \in {"start", "running", "send", "done"}
        /\ Len(vran[p]) = (IF vpc[p] = "start" THEN 0 ELSE 1)
        /\ vran[p] # <<>> =>
               vran[p][1].args[1] = (IF isLocalChart(vreq[p].chart) THEN Str("inspect") ELSE Str("search"))
        /\ Len(Delivered) <= 1
        /\ vpc[p] = "send" => Problem(p) /\ Delivered = <<>>
        /\ vpc[p] = "done" => (Len(Delivered) = 1 <=> Problem(p))
        /\ vpc[p] # "done" => Delivered = <<>>

\* a search that exited 0 and printed "No results found" was reported once
C12_Witness ==
    /\ DOMAIN vpc = {1}
    /\ vpc[1] = "done"
    /\ vreq[1].chart = RemoteChart
    /\ vtool[1].code = 0
    /\ vtool[1].output = <<NoResultsFound, "\n">>
    /\ Len(received) = 1
    /\ Len(vran[1]) = 1

\* C13: for a local chart whose inspection exited 0, the call reports a
\* mismatch exactly when the output has a line "version: <value>" after a
\* newline and the value, quotes stripped, is not the requested version,
\* quotes stripped.  Declared '1.2.3': requested 1.2.3 reports nothing,
\* requested 1.2.4 reports one message naming both.  No version line: nothing.
C13_LocalMismatch ==
    \A p \in ChartCalls :
        (vpc[p] = "done" /\ isLocalChart(vreq[p].chart) /\ vtool[p].code = 0) =>
            LET version == vreq[p].version
                output == vtool[p].output
                quoted123 == ChartText(TRUE, <<" ">>, <<"'">>, <<"1.2.3">>)
            IN  /\ Len(Delivered) = 1 <=> DeclaresOther(version, output)
                /\ Len(Delivered) <= 1
                /\ (output = quoted123 /\ Unquoted(version) = <<"1.2.3">>) => Delivered = <<>>
                /\ (output = quoted123 /\ version = <<"1.2.4">>) =>
                       /\ Len(Delivered) = 1
                       /\ Contains(Delivered[1], <<" ] with version [ ", "1.2.4", " ] is specified for ">>)
                       /\ Contains(Delivered[1], <<"] but the chart found at that path has version [ ", "1.2.3", " ] which does not match.">>)
                /\ Declaring(output) = {} => Delivered = <<>>

\* declared '1.2.3', requested "1.2.3" in quotes: nothing was reported
C13_Witness ==
    /\ DOMAIN vpc = {1}
    /\ vpc[1] = "done"
    /\ isLocalChart(vreq[1].chart)
    /\ vtool[1].code = 0
    /\ vtool[1].output = ChartText(TRUE, <<" ">>, <<"'">>, <<"1.2.3">>)
    /\ vreq[1].version = <<"\"", "1.2.3", "\"">>
    /\ Delivered = <<>>

\* the positions in a sequence of messages of those that name the app of call p
MsgsOf(msgs, p) == {i \in 1..Len(msgs) : Contains(msgs[i], vreq[p].apps)}

\* all calls have returned and the consumer has emptied the channel
AllCollected == chan.buf = <<>> /\ \A p \in ChartCalls : vpc[p] = "done"

\* C14: with N calls on one channel, in every interleaving, every message that
\* left a call names exactly one call, its app and its chart, that call found
\* a problem, and no call has two messages; a call that found a problem and
\* returned has its message delivered; once all have returned and the channel
\* is drained the consumer holds one message per call with a problem and
\* nothing else.
C14_OneMessagePerProblem ==
    /\ \A i \in 1..Len(Delivered) :
           \E p \in ChartCalls :
               /\ MsgsOf(Delivered, p) = {i}
               /\ \A q \in ChartCalls \ {p} : i \notin MsgsOf(Delivered, q)
               /\ Problem(p)
               /\ vpc[p] = "done"
               /\ HasPrefix(Delivered[i], <<"Chart [ ">> \o vreq[p].chart)
    /\ \A p \in ChartCalls :
           /\ Cardinality(MsgsOf(Delivered, p)) <= 1
           /\ (vpc[p] = "done" /\ Problem(p)) => Cardinality(MsgsOf(Delivered, p)) = 1
           /\ ~Problem(p) => MsgsOf(Delivered, p) = {}
    /\ AllCollected =>
           /\ Len(received) = Cardinality({p \in ChartCalls : Problem(p)})
           /\ \A p \in ChartCalls : Cardinality(MsgsOf(received, p)) = (IF Problem(p) THEN 1 ELSE 0)

\* two calls found a problem and the consumer got the message of the second
\* call before the message of the first
C14_Witness ==
    /\ AllCollected
    /\ {1, 2} \subseteq ChartCalls
    /\ Len(received) >= 2
    /\ MsgsOf(received, 2) = {1}
    /\ MsgsOf(received, 1) = {2}
    /\ isLocalChart(vreq[1].chart) /\ vtool[1].code = 0
    /\ ~isLocalChart(vreq[2].chart)

\* a call that waits to send keeps no other call from starting its command
\* or from getting its result
NoCallHeldUp ==
    \A p \in ChartCalls : \A q \in ChartCalls \ {p} :
        vpc[p] = "send" =>
            /\ vpc[q] = "start" => ENABLED VInvoke(q)
            /\ vpc[q] = "running" => ENABLED VComplete(q)

\* a call that found no problem returns from its command without a step on
\* the channel
SilentReturn ==
    \A p \in ChartCalls :
        (vpc[p] = "running" /\ ~Problem(p) /\ vpc'[p] # vpc[p]) =>
            /\ vpc'[p] = "done"
            /\ UNCHANGED <<chan, received>>

\* C15: with the consumer receiving and every command returning, every call
\* returns; a call waiting to send does not hold up the command of another;
\* a call without a problem returns without touching the channel.
C15_EveryCallReturns ==
    /\ <>(\A p \in ChartCalls : vpc[p] = "done")
    /\ []NoCallHeldUp
    /\ [][SilentReturn]_vars

\* call 1 waits to send on an unbuffered channel while the command of call 2
\* is running
C15_Witness ==
    /\ {1, 2} \subseteq ChartCalls
    /\ vpc[1] = "send"
    /\ chan.cap = 0
    /\ vpc[2] = "running"
    /\ Len(vran[2]) = 1
    /\ received = <<>>

(***************************************************************************)
(* getChartInfo (lines 71-89).                                             *)
(***************************************************************************)

\* the decoded chart description: its name and version fields
ZeroChartInfo == [Name |-> <<>>, Version |-> <<>>]

\* one line of a YAML mapping is  key ":" " " value ; anything else is not
IsPair(line) == Len(line) >= 3 /\ line[2] = ":" /\ line[3] = " " /\ line[1] \notin {":", " ", "\t"}

PairValue(line) == trimQuotes(SubSeq(line, 4, Len(line)))

\* yaml.Unmarshal([]byte(result.output), &c), line 84: the document is a
\* mapping, one pair a line; name and version are kept, other keys dropped.
\* A line that is no pair is an error.
yamlUnmarshal(output) ==
    LET lines == SelectSeq(Split(output, "\n"), LAMBDA l : l # <<>>)
        bad == \E i \in 1..Len(lines) : ~IsPair(lines[i])
        valueOf(key) ==
            LET at == {i \in 1..Len(lines) : lines[i][1] = key}
            IN  IF at = {} THEN <<>> ELSE PairValue(lines[CHOOSE i \in at : \A k \in at : k <= i])
    IN  IF bad THEN [err |-> TRUE, c |-> ZeroChartInfo]
        ELSE [err |-> FALSE, c |-> [Name |-> valueOf("name"), Version |-> valueOf("version")]]

\* line 76
showCmd(chart, version) ==
    helmCmd(<<Str("show"), Str("chart"), chart, Str("--version"), version>>)

\* line 80
notFoundError(chart, version) ==
    <<"Chart [ ">> \o chart \o <<" ] with version [ ">> \o version
        \o <<" ] is specified but not found in the helm repositories">>

\* line 73
foundLocally(chart, version) ==
    <<"Chart [ ">> \o chart \o <<" ] with version [ ">> \o version \o <<" ] was found locally.">>

\* showFailed with a fault: the exit code is not looked at
showFailedIgnored(result) == FALSE

\* line 79
showFailed(result) == result.code # 0

\* the text of a chart description with the given name and version
YamlDoc(name, version) ==
    <<"apiVersion", ":", " ", "v1", "\n", "name", ":", " ">> \o name
        \o <<"\n", "version", ":", " ">> \o version \o <<"\n">>

DocNames == {<<"app">>, <<"web">>}

DocVersions == {<<"1.2.3">>, <<"'", "1.0", "'">>}

\* outputs that are no YAML mapping
MalformedDocs == {<<"name", ":", " ", "app", "\n", "\t", "version", "\n">>, <<"Error", "\n">>}

ShowOutputs == {YamlDoc(n, v) : n \in DocNames, v \in DocVersions} \cup MalformedDocs \cup {<<>>}

InfoInit ==
    /\ NoRepos
    /\ vreq = <<>> /\ vtool = <<>> /\ vpc = <<>> /\ vran = <<>>
    /\ chan = [cap |-> 0, buf |-> <<>>]
    /\ received = <<>>
    /\ \E chart \in Charts, version \in ChartVersions, code \in ExitCodes, output \in ShowOutputs :
           chartInfo = [pc |-> "start", chart |-> chart, version |-> version,
                        answer |-> [code |-> code, output |-> output, errors |-> <<>>],
                        log |-> <<>>, ran |-> <<>>, decoded |-> FALSE,
                        status |-> "running", c |-> ZeroChartInfo, err |-> <<>>]

\* lines 72-78: the note for a local chart, then the command
InfoExec ==
    /\ chartInfo.pc = "start"
    /\ chartInfo' = [chartInfo EXCEPT
           !.pc = "ran",
           !.log = IF isLocalChart(chartInfo.chart)
                   THEN Append(@, foundLocally(chartInfo.chart, chartInfo.version)) ELSE @,
           !.ran = Append(@, showCmd(chartInfo.chart, chartInfo.version))]
    /\ UNCHANGED <<vreq, vtool, vpc, vran, chan, received>>
    /\ UNCHANGED repoVars

\* lines 79-88: the not-found error, or the decoded description, or log.Fatal
InfoResult ==
    /\ chartInfo.pc = "ran"
    /\ IF showFailed(chartInfo.answer)
       THEN chartInfo' = [chartInfo EXCEPT !.pc = "returned", !.status = "error",
                              !.err = notFoundError(chartInfo.chart, chartInfo.version)]
       ELSE LET y == yamlUnmarshal(chartInfo.answer.output)
            IN  IF y.err
                THEN chartInfo' = [chartInfo EXCEPT !.pc = "exited", !.status = "fatal", !.decoded = TRUE]
                ELSE chartInfo' = [chartInfo EXCEPT !.pc = "returned", !.status = "ok",
                                       !.decoded = TRUE, !.c = y.c]
    /\ UNCHANGED <<vreq, vtool, vpc, vran, chan, received>>
    /\ UNCHANGED repoVars

InfoNext == InfoExec \/ InfoResult

InfoSpec == InfoInit /\ [][InfoNext]_vars

\* C16: getChartInfo runs the one command "show chart <chart> --version
\* <version>" whether the chart is local or not (a local chart only adds a
\* log line); on a non-zero exit it returns the not-found error naming chart
\* and version, no chart description, and does not decode; on exit 0 it
\* returns the decoded description and no error, or exits on a decode error.
C16_ShowChartOnce ==
    chartInfo.pc \in {"ran", "returned", "exited"} =>
        LET chart == chartInfo.chart
            version == chartInfo.version
            output == chartInfo.answer.output
        IN  /\ chartInfo.ran = <<[kind |-> "exec",
                                  args |-> <<Str("show"), Str("chart"), chart, Str("--version"), version>>]>>
            /\ Len(chartInfo.log) = (IF isLocalChart(chart) THEN 1 ELSE 0)
            /\ chartInfo.pc = "ran" => chartInfo.status = "running"
            /\ (chartInfo.pc # "ran" /\ chartInfo.answer.code # 0) =>
                   /\ chartInfo.pc = "returned"
                   /\ chartInfo.status = "error"
                   /\ HasPrefix(chartInfo.err, <<"Chart [ ">> \o chart \o <<" ] with version [ ">> \o version)
                   /\ chartInfo.err[Len(chartInfo.err)] = " ] is specified but not found in the helm repositories"
                   /\ chartInfo.c = ZeroChartInfo
                   /\ ~chartInfo.decoded
            /\ (chartInfo.pc # "ran" /\ chartInfo.answer.code = 0) =>
                   /\ chartInfo.decoded
                   /\ chartInfo.err = <<>>
                   /\ \A n \in DocNames, v \in DocVersions :
                          output = YamlDoc(n, v) =>
                              /\ chartInfo.pc = "returned"
                              /\ chartInfo.status = "ok"
                              /\ chartInfo.c = [Name |-> n, Version |-> Unquoted(v)]
                   /\ output \in MalformedDocs => chartInfo.pc = "exited" /\ chartInfo.status = "fatal"
                   /\ chartInfo.status \in {"ok", "fatal"}

\* a local chart whose show command exited 1: the not-found error, no decoding
C16_Witness ==
    /\ chartInfo.pc = "returned"
    /\ isLocalChart(chartInfo.chart)
    /\ chartInfo.answer.code = 1
    /\ chartInfo.answer.output \in MalformedDocs
    /\ chartInfo.status = "error"
    /\ Len(chartInfo.ran) = 1

(***************************************************************************)
(* addHelmRepos: order of the invocations, what is added, repeated calls.  *)
(***************************************************************************)

\* the URL argument of an add invocation
AddUrl(r) == r.args[5]

\* C17: the invocations of an addHelmRepos call are, in this order: the
\* listing, the version check, per entry the plugin probe and the
\* authentication (gs:// entries only) and then the add, and last the one
\* refresh.  No add comes before the listing and the version check, and
\* nothing comes after the refresh.
C17_InvocationOrder ==
    /\ \A i \in 1..Len(trace) :
          /\ isList(trace[i]) <=> i = 1
          /\ isVersion(trace[i]) <=> i = 2
          /\ i >= 3 => isProbe(trace[i]) \/ isAuth(trace[i]) \/ isAdd(trace[i]) \/ isUpdate(trace[i])
          /\ isAdd(trace[i]) =>
                /\ i >= 3
                /\ trace[1].code = 0 \/ listErrorTolerated(trace[1].errors)
                /\ trace[2].code = 0
                /\ HasPrefix(AddUrl(trace[i]), GsPrefix) => isAuth(trace[i - 1]) /\ isProbe(trace[i - 2])
          /\ isAuth(trace[i]) => i >= 4 /\ isProbe(trace[i - 1])
          /\ isProbe(trace[i]) => i >= 3 /\ ~isProbe(trace[i - 1]) /\ (i < Len(trace) => isAuth(trace[i + 1]))
          /\ (isAuth(trace[i]) /\ i < Len(trace)) => trace[i].code = 0 /\ ~isAuth(trace[i + 1])
          /\ isUpdate(trace[i]) => i = Len(trace) /\ i >= 3 /\ LoopCompleted
    /\ Cardinality(Updates) <= 1
    /\ (pc = "idle" /\ ret.status = "nil" /\ repos # EmptyMap) => Cardinality(Updates) = 1
    /\ \A n \in Names : Cardinality({i \in Adds : isAddOf(trace[i], n)}) <= 1

\* listing, version check, probe, authentication and add of a gs:// entry, add
\* of another entry, refresh
C17_Witness ==
    /\ pc = "idle" /\ ret.status = "nil"
    /\ Len(trace) = 7
    /\ isList(trace[1]) /\ isVersion(trace[2])
    /\ isProbe(trace[3]) /\ isAuth(trace[4]) /\ isAdd(trace[5])
    /\ isAdd(trace[6]) /\ ~HasPrefix(AddUrl(trace[6]), GsPrefix)
    /\ isUpdate(trace[7])

\* the call has returned nil and none of its invocations failed
FullySuccessful ==
    /\ pc = "idle"
    /\ calls > 0
    /\ ret.status = "nil"
    /\ \A i \in 1..Len(trace) : trace[i].code = 0

\* the desired names that are not listed, or listed with another URL than the
\* desired one without its user-info
NeedsAdd == {n \in DOMAIN repos : n \notin DOMAIN existingRepos \/ existingRepos[n] # WithoutUserInfo(repos[n])}

\* the registered repositories after reconciling the listed ones with the
\* desired mapping
Reconciled ==
    [n \in DOMAIN existingRepos \cup DOMAIN repos |->
        IF n \in DOMAIN repos THEN WithoutUserInfo(repos[n]) ELSE existingRepos[n]]

\* C18: when no invocation of a call fails, the names given to 'repo add' are
\* the desired names that are not listed or are listed with a URL other than
\* the desired one stripped of its user-info, each once; these names and the
\* registered repositories at the end depend on the listing and the mapping
\* only, not on the order the mapping was iterated in.
C18_AddsAreTheDifference ==
    FullySuccessful =>
        /\ {n \in Names : AddedFor(n)} = NeedsAdd
        /\ Cardinality(Adds) = Cardinality(NeedsAdd)
        /\ \A i \in Adds : AddUrl(trace[i]) = WithoutUserInfo(repos[trace[i].args[4][1]])
        /\ registered = Reconciled

\* b was added before a; a was listed with another URL than the desired one
C18_Witness ==
    /\ FullySuccessful
    /\ DOMAIN repos = {"a", "b"}
    /\ "a" \in DOMAIN existingRepos /\ "b" \notin DOMAIN existingRepos
    /\ \E i, j \in Adds : i < j /\ isAddOf(trace[i], "b") /\ isAddOf(trace[j], "a")

\* C19: a call that repeats the mapping of the call before it, when no
\* invocation of that call failed and the listing shows what it added, issues
\* no add, entries with user:pass credentials included.
C19_SecondCallAddsNothing ==
    (again /\ Len(trace) >= 1 /\ trace[1].code = 0) => Adds = {}

\* the repeated call ran to its end for a mapping with a user:pass URL, and
\* issued the listing, the version check and the refresh only
C19_Witness ==
    /\ again
    /\ FullySuccessful
    /\ calls = 2
    /\ \E n \in DOMAIN repos : repos[n] = UrlUserPass
    /\ \E n \in DOMAIN repos : repos[n] = UrlGcs
    /\ Adds = {}
    /\ isUpdate(trace[Len(trace)])

====
